---- MODULE Spec2Model ----
(***************************************************************************)
(* Model of security-framework/src/secure_transport.rs: the handshake      *)
(* state machine (SslContext::handshake, MidHandshakeSslStream::handshake),*)
(* the connection shim (Connection, read_func, write_func, translate_err)  *)
(* and the teardown of SslStream and SslContext.                           *)
(*                                                                         *)
(* The program is single-threaded.  pc is the position of that thread:     *)
(* "idle" between API calls, "engine" inside a native Secure Transport     *)
(* call, "cb" inside read_func / write_func, "drop" inside the drop glue.  *)
(* The native engine is not part of the repository: it is modelled by its  *)
(* contract (it stops with the status of a failed I/O callback, it retries *)
(* the blocked I/O first when called again after would-block, it validates *)
(* the peer's certificate itself unless break-on-server-auth is set, it    *)
(* keeps a copy of the peer identifier).                                   *)
(*                                                                         *)
(* Spec is the whole life of a session.  SpecConfig and SpecDomainName    *)
(* are the configuration of a fresh SslContext alone: set_peer_id and      *)
(* peer_id, set_peer_domain_name and peer_domain_name before handshake.    *)
(***************************************************************************)
EXTENDS Integers, Sequences, FiniteSets, TLC

\* ---------------------------------------------------------------- bounds
\* Longest buffer the engine hands to read_func / write_func.
MaxBuf == 3
\* Most I/O callbacks the engine issues inside one native call.
MaxIO == 2
\* Most resumes of one paused handshake (the counter is capped in the guard).
MaxResumes == 2
\* Longest peer identifier handed to set_peer_id.
MaxIdLen == 2
\* Largest byte value used in a peer identifier.
MaxByte == 2
\* Longest peer domain name handed to set_peer_domain_name.
MaxNameLen == 2

\* ------------------------------------------------- engine status codes
errSecSuccess == "errSecSuccess"
errSecIO == "errSecIO"
errSecBadReq == "errSecBadReq"
errSSLWouldBlock == "errSSLWouldBlock"
errSSLClosedGraceful == "errSSLClosedGraceful"
errSSLClosedAbort == "errSSLClosedAbort"
errSSLClosedNoNotify == "errSSLClosedNoNotify"
errSSLPeerAuthCompleted == "errSSLPeerAuthCompleted"
errSSLClientCertRequested == "errSSLClientCertRequested"
errSSLXCertChainInvalid == "errSSLXCertChainInvalid"
errSSLProtocol == "errSSLProtocol"

\* io::ErrorKind values translate_err tells apart; "Other" is every other kind.
ErrorKinds == {"NotFound", "ConnectionReset", "WouldBlock", "Other"}

VARIABLES
  pc,          \* "idle" | "engine" | "cb" | "drop"
  op,          \* API call in progress or last made
  owner,       \* value owning the session: "ctx" | "local" | "mid" | "stream" | "tearing" | "none"
  paused,      \* pause kind carried by the MidHandshakeSslStream, or "none"
  resumes,     \* MidHandshakeSslStream::handshake calls made so far
  ctxAlloc,    \* the engine state (SSLContextRef) is allocated
  connRef,     \* the engine's back-reference: "null" | "shim"
  sessState,   \* the engine's session state
  pending,     \* I/O the engine is blocked on: "none" | "read" | "write"
  shim,        \* the boxed Connection: "none" | "live" | "freed"
  freeCount,   \* times a Box<Connection> was rebuilt from the raw pointer and dropped
  freedBy,     \* code paths that reclaimed the shim
  connErr,     \* Connection.err: "None" or the kind of the stored io::Error
  streamAt,    \* where the caller's stream S is: "caller" | "shim" | "dropped"
  streamReady, \* FALSE: the stream answers every read/write with WouldBlock
  ecall,       \* native call in progress: "none" | "SSLHandshake" | "SSLClose" | "SSLRead" | "SSLWrite"
  ioCount,     \* callbacks issued inside the current native call
  cbRet,       \* result of the last callback of the current native call
  cb,          \* activation record of read_func / write_func
  todo,        \* teardown steps still to run in the drop glue
  tearing,     \* what the last teardown tears down
  status,      \* status of the last SSLSetIOFuncs / SSLSetConnection / SSLHandshake decided on
  outcome,     \* result of the last drive step
  ioRes,       \* result of the last read / write / flush on the established stream
  pre,         \* facts recorded when the current API call began
  closeSignalled, \* SSLClose was called in the current teardown
  cbOnFreed,   \* read_func / write_func ran against a Connection already reclaimed
  advances,    \* calls of SSLHandshake made by the current drive step
  connected,   \* a drive step of this session has returned Ok
  query,       \* result of the configuration or query call made last, if no other call followed
  peerId,      \* the engine's copy of the peer identifier
  idSet,       \* the bytes of the last set_peer_id call that returned Ok
  peerDomainName, \* the engine's copy of the peer domain name
  nameSet,     \* the string of the last set_peer_domain_name call that returned Ok
  breakOnServerAuth, \* the engine's option kSSLSessionOptionBreakOnServerAuth (a Boolean, 0 or 1)
  breakAsked,  \* the value the caller passed to set_break_on_server_auth last
  authDone,    \* the engine has paused this handshake after the server's certificate
  peerMatches  \* the identity the peer presents matches the configured peer domain name

vars == <<pc, op, owner, paused, resumes, ctxAlloc, connRef, sessState, pending,
          shim, freeCount, freedBy, connErr, streamAt, streamReady, ecall,
          ioCount, cbRet, cb, todo, tearing, status, outcome, ioRes, pre,
          closeSignalled, cbOnFreed, advances, connected, query, peerId, idSet, peerDomainName,
          nameSet, breakOnServerAuth, breakAsked, authDone, peerMatches>>

\* What the drive steps of the session have done.
drive == <<advances, connected>>

\* The session's configuration, the peer, and the last query.
config == <<peerId, idSet, peerDomainName, nameSet, breakOnServerAuth,
            breakAsked, authDone, peerMatches>>

\* ------------------------------------------------------- plain values
NoCb == [active |-> FALSE, kind |-> "none", N |-> 0, start |-> 0,
         ret |-> errSecSuccess, stop |-> FALSE, calls |-> 0, sum |-> 0,
         zero |-> FALSE, offered |-> 0, errBefore |-> "None",
         sumBeforeLast |-> 0, lastErr |-> "None"]

NoCbRet == [done |-> FALSE, ret |-> errSecSuccess, len |-> 0]

NoOutcome == [kind |-> "none", reason |-> "none", hasStream |-> FALSE]

NoIoRes == [kind |-> "none", n |-> 0,
            err |-> [from |-> "none", kind |-> "None", code |-> "none"],
            ret |-> "none", nio |-> 0, had |-> "None",
            fresh |-> FALSE]

NoPre == [paused |-> "none", ready |-> TRUE, shim |-> "none", ctx |-> FALSE,
          install |-> "none"]

\* A peer identifier: absent (a null pointer), or the bytes.
NoId == [some |-> FALSE, data |-> <<>>]

NoQuery == [op |-> "none", arg |-> <<>>, res |-> "none", code |-> "none",
            val |-> NoId, copied |-> FALSE, state |-> "none"]

Ok(n) == [t |-> "Ok", len |-> n, kind |-> "None"]

Err(k) == [t |-> "Err", len |-> 0, kind |-> k]

Init ==
  /\ pc = "idle"
  /\ op = "none"
  /\ owner = "ctx"
  /\ paused = "none"
  /\ resumes = 0
  /\ ctxAlloc = TRUE
  /\ connRef = "null"
  /\ sessState = "Idle"
  /\ pending = "none"
  /\ shim = "none"
  /\ freeCount = 0
  /\ freedBy = {}
  /\ connErr = "None"
  /\ streamAt = "caller"
  /\ streamReady = TRUE
  /\ ecall = "none"
  /\ ioCount = 0
  /\ cbRet = NoCbRet
  /\ cb = NoCb
  /\ todo = <<>>
  /\ tearing = "none"
  /\ status = "none"
  /\ outcome = NoOutcome
  /\ ioRes = NoIoRes
  /\ pre = NoPre
  /\ closeSignalled = FALSE
  /\ cbOnFreed = FALSE
  /\ advances = 0
  /\ connected = FALSE
  /\ query = NoQuery
  /\ peerId = NoId
  /\ idSet = NoId
  /\ peerDomainName = <<>>
  /\ nameSet = <<>>
  /\ breakOnServerAuth = 0
  /\ breakAsked = FALSE
  /\ authDone = FALSE
  /\ peerMatches \in BOOLEAN

\* ------------------------------------------------ the connection shim
\* Variant: NotFound is not told apart from the other error kinds.
translate_err_NotFoundAsIo(k) ==
  CASE k = "ConnectionReset" -> errSSLClosedAbort
    [] k = "WouldBlock" -> errSSLWouldBlock
    [] OTHER -> errSecIO

\* translate_err: io::ErrorKind -> OSStatus.
translate_err(k) ==
  CASE k = "NotFound" -> errSSLClosedGraceful
    [] k = "ConnectionReset" -> errSSLClosedAbort
    [] k = "WouldBlock" -> errSSLWouldBlock
    [] OTHER -> errSecIO

\* What one call of the caller's stream may answer for a buffer of `room` bytes
\* (std::io::Read / Write: Ok(n) has n <= room).  A stream held not-ready
\* answers WouldBlock to every call.
StreamResults(room) ==
  IF streamReady
    THEN {Ok(n) : n \in 0..room} \cup {Err(k) : k \in ErrorKinds}
    ELSE {Err("WouldBlock")}

\* Variant: the loop goes on after an error or a transfer of zero bytes.
LoopCond_NoBreak(c) == c.start < c.N

\* `while start < data.len()` with the effect of `break`.
LoopCond(c) == c.start < c.N /\ ~c.stop

\* Variant: a WouldBlock error is reported but not stored.
read_func_SkipWouldBlock(c, e, r) ==
  IF r.t = "Ok" /\ r.len = 0
    THEN [c |-> [c EXCEPT !.ret = errSSLClosedNoNotify, !.stop = TRUE], e |-> e]
    ELSE IF r.t = "Ok"
      THEN [c |-> [c EXCEPT !.start = c.start + r.len], e |-> e]
      ELSE [c |-> [c EXCEPT !.ret = translate_err(r.kind), !.stop = TRUE],
            e |-> IF r.kind = "WouldBlock" THEN e ELSE r.kind]

\* Variant: a single read, as plain Read::read would do.
read_func_ShortRead(c, e, r) ==
  IF r.t = "Ok" /\ r.len = 0
    THEN [c |-> [c EXCEPT !.ret = errSSLClosedNoNotify, !.stop = TRUE], e |-> e]
    ELSE IF r.t = "Ok"
      THEN [c |-> [c EXCEPT !.start = c.start + r.len, !.stop = TRUE], e |-> e]
      ELSE [c |-> [c EXCEPT !.ret = translate_err(r.kind), !.stop = TRUE],
            e |-> r.kind]

\* Variant: a zero-length read is stored as an error.
read_func_ZeroAsError(c, e, r) ==
  IF r.t = "Ok" /\ r.len = 0
    THEN [c |-> [c EXCEPT !.ret = errSSLClosedNoNotify, !.stop = TRUE],
          e |-> "Other"]
    ELSE IF r.t = "Ok"
      THEN [c |-> [c EXCEPT !.start = c.start + r.len], e |-> e]
      ELSE [c |-> [c EXCEPT !.ret = translate_err(r.kind), !.stop = TRUE],
            e |-> r.kind]

\* The match on conn.stream.read(&mut data[start..]) in read_func: the new
\* activation record and the new value of conn.err.
read_func(c, e, r) ==
  IF r.t = "Ok" /\ r.len = 0
    THEN [c |-> [c EXCEPT !.ret = errSSLClosedNoNotify, !.stop = TRUE], e |-> e]
    ELSE IF r.t = "Ok"
      THEN [c |-> [c EXCEPT !.start = c.start + r.len], e |-> e]
      ELSE [c |-> [c EXCEPT !.ret = translate_err(r.kind), !.stop = TRUE],
            e |-> r.kind]

\* Variant: an error already stored in conn.err is kept.
write_func_KeepFirstError(c, e, r) ==
  IF r.t = "Ok" /\ r.len = 0
    THEN [c |-> [c EXCEPT !.ret = errSSLClosedNoNotify, !.stop = TRUE], e |-> e]
    ELSE IF r.t = "Ok"
      THEN [c |-> [c EXCEPT !.start = c.start + r.len], e |-> e]
      ELSE [c |-> [c EXCEPT !.ret = translate_err(r.kind), !.stop = TRUE],
            e |-> IF e = "None" THEN r.kind ELSE e]

\* Variant: a zero-length write is a transient lack of progress.
write_func_ZeroAsWouldBlock(c, e, r) ==
  IF r.t = "Ok" /\ r.len = 0
    THEN [c |-> [c EXCEPT !.ret = errSSLWouldBlock, !.stop = TRUE], e |-> e]
    ELSE IF r.t = "Ok"
      THEN [c |-> [c EXCEPT !.start = c.start + r.len], e |-> e]
      ELSE [c |-> [c EXCEPT !.ret = translate_err(r.kind), !.stop = TRUE],
            e |-> r.kind]

\* The match on conn.stream.write(&data[start..]) in write_func.
write_func(c, e, r) ==
  IF r.t = "Ok" /\ r.len = 0
    THEN [c |-> [c EXCEPT !.ret = errSSLClosedNoNotify, !.stop = TRUE], e |-> e]
    ELSE IF r.t = "Ok"
      THEN [c |-> [c EXCEPT !.start = c.start + r.len], e |-> e]
      ELSE [c |-> [c EXCEPT !.ret = translate_err(r.kind), !.stop = TRUE],
            e |-> r.kind]

\* One iteration of the loop of read_func / write_func: one stream call.
CbIter ==
  /\ UNCHANGED drive
  /\ UNCHANGED <<query, config>>
  /\ pc = "cb"
  /\ LoopCond(cb)
  /\ \E r \in StreamResults(cb.N - cb.start) :
       LET s == IF cb.kind = "read" THEN read_func(cb, connErr, r)
                                    ELSE write_func(cb, connErr, r)
       IN /\ cb' = [s.c EXCEPT !.calls = cb.calls + 1,
                               !.sum = cb.sum + r.len,
                               !.sumBeforeLast = cb.sum,
                               !.zero = (r = Ok(0)),
                               !.lastErr = r.kind,
                               !.offered = cb.N - cb.start]
          /\ connErr' = s.e
  /\ UNCHANGED <<pc, op, owner, paused, resumes, ctxAlloc, connRef, sessState,
                 pending, shim, freeCount, freedBy, streamAt, streamReady,
                 ecall, ioCount, cbRet, todo, tearing, status, outcome, ioRes,
                 pre, closeSignalled, cbOnFreed>>

\* `*data_length = start; ret`: the callback returns into the engine, which
\* remembers the I/O it is blocked on.
CbReturn ==
  /\ UNCHANGED drive
  /\ UNCHANGED <<query, config>>
  /\ pc = "cb"
  /\ ~LoopCond(cb)
  /\ cbRet' = [done |-> TRUE, ret |-> cb.ret, len |-> cb.start]
  /\ cb' = [cb EXCEPT !.active = FALSE]
  /\ pending' = IF cb.ret = errSSLWouldBlock THEN cb.kind ELSE "none"
  /\ pc' = "engine"
  /\ UNCHANGED <<op, owner, paused, resumes, ctxAlloc, connRef, sessState,
                 shim, freeCount, freedBy, connErr, streamAt, streamReady,
                 ecall, ioCount, todo, tearing, status, outcome, ioRes, pre,
                 closeSignalled, cbOnFreed>>

\* ---------------------------------------------------- the native engine
\* Callbacks the engine may issue now: the blocked I/O first; SSLClose only
\* writes (the close alert), and only on a session that was started.
CallbackKinds ==
  CASE ecall = "SSLClose" ->
         IF sessState \in {"Handshake", "Connected"} THEN {"write"} ELSE {}
    [] pending # "none" -> {pending}
    [] ecall = "SSLRead" -> {"read"}
    [] ecall = "SSLWrite" -> {"write"}
    [] OTHER -> {"read", "write"}

CallbackLens ==
  IF pending # "none" /\ ecall # "SSLClose" THEN 1..MaxBuf ELSE 0..MaxBuf

\* The engine calls read_func / write_func through the installed pointers
\* with its back-reference.
EngineCallback ==
  /\ UNCHANGED drive
  /\ UNCHANGED <<query, config>>
  /\ pc = "engine"
  /\ ioCount < MaxIO
  /\ cbRet.done => cbRet.ret = errSecSuccess
  /\ \E k \in CallbackKinds, n \in CallbackLens :
       cb' = [NoCb EXCEPT !.active = TRUE, !.kind = k, !.N = n,
                          !.errBefore = connErr]
  /\ pc' = "cb"
  /\ ioCount' = ioCount + 1
  /\ cbRet' = NoCbRet
  /\ cbOnFreed' = (cbOnFreed \/ shim # "live")
  /\ UNCHANGED <<op, owner, paused, resumes, ctxAlloc, connRef, sessState,
                 pending, shim, freeCount, freedBy, connErr, streamAt,
                 streamReady, ecall, todo, tearing, status, outcome, ioRes,
                 pre, closeSignalled>>

\* The engine may return only after it retried the I/O it was blocked on.
ReturnAllowed == cbRet.done \/ pending = "none"

\* Statuses SSLHandshake may return now: the status of a failed callback, or
\* the engine's own verdict.  With break-on-server-auth off the engine
\* validates the peer's certificate against the peer domain name itself; with
\* it on the engine pauses once after the certificate arrived, does not
\* validate, and goes on when resumed.
HandshakeStatuses ==
  IF cbRet.done /\ cbRet.ret # errSecSuccess
    THEN {cbRet.ret}
    ELSE {errSSLClientCertRequested, errSSLProtocol}
         \cup (IF breakOnServerAuth # 0 /\ ~authDone
                 THEN {errSSLPeerAuthCompleted} ELSE {})
         \cup (IF breakOnServerAuth = 0
                 THEN {errSSLXCertChainInvalid} ELSE {})
         \cup (IF (breakOnServerAuth # 0 /\ authDone)
                    \/ (breakOnServerAuth = 0 /\ peerMatches)
                 THEN {errSecSuccess} ELSE {})

SessionAfterHandshake(st) ==
  CASE st = errSecSuccess -> "Connected"
    [] st \in {errSSLPeerAuthCompleted, errSSLClientCertRequested,
               errSSLWouldBlock} -> "Handshake"
    [] OTHER -> "Aborted"

\* --------------------------------------------------- the drive step
\* Variant: the Connection is reclaimed before SSLClose is called.
DropOrder_ReclaimFirst == <<"reclaim", "close", "ctx">>

\* Variant: the Connection is never rebuilt from the raw pointer.
DropOrder_NoReclaim == <<"close", "ctx">>

\* Variant: the SslContext field is not dropped after the Connection.
DropOrder_NoCtx == <<"close", "reclaim">>

\* Drop for SslStream (SSLClose, then the Connection is rebuilt from the raw
\* pointer and dropped), followed by the drop of its field ctx (Drop for
\* SslContext).
DropOrder == <<"close", "reclaim", "ctx">>

\* Drop for SslContext alone.
CtxDropOrder == <<"ctx">>

\* Statuses SSLSetIOFuncs and SSLSetConnection may return.
InstallStatuses == {errSecSuccess, errSecBadReq}

\* Variant: no Box::from_raw on the failure of SSLSetConnection.
Install_Leak(r1, r2) ==
  IF r1 # errSecSuccess
    THEN [fail |-> "iofuncs", ret |-> r1, shim |-> "none", frees |-> 0,
          connRef |-> "null", streamAt |-> "dropped", todo |-> CtxDropOrder]
    ELSE IF r2 # errSecSuccess
      THEN [fail |-> "connection", ret |-> r2, shim |-> "live", frees |-> 0,
            connRef |-> "null", streamAt |-> "shim", todo |-> CtxDropOrder]
      ELSE [fail |-> "none", ret |-> errSecSuccess, shim |-> "live",
            frees |-> 0, connRef |-> "shim", streamAt |-> "shim",
            todo |-> <<>>]

\* Variant: the Connection is boxed before SSLSetIOFuncs is checked.
Install_EarlyAlloc(r1, r2) ==
  IF r1 # errSecSuccess
    THEN [fail |-> "iofuncs", ret |-> r1, shim |-> "live", frees |-> 0,
          connRef |-> "null", streamAt |-> "shim", todo |-> CtxDropOrder]
    ELSE IF r2 # errSecSuccess
      THEN [fail |-> "connection", ret |-> r2, shim |-> "freed", frees |-> 1,
            connRef |-> "null", streamAt |-> "dropped", todo |-> CtxDropOrder]
      ELSE [fail |-> "none", ret |-> errSecSuccess, shim |-> "live",
            frees |-> 0, connRef |-> "shim", streamAt |-> "shim",
            todo |-> <<>>]

\* SslContext::handshake up to the construction of the SslStream: install the
\* callbacks, box the Connection, install the back-reference.  On an early
\* return only `self` (the SslContext) and the stream are left to drop.
Install(r1, r2) ==
  IF r1 # errSecSuccess
    THEN [fail |-> "iofuncs", ret |-> r1, shim |-> "none", frees |-> 0,
          connRef |-> "null", streamAt |-> "dropped", todo |-> CtxDropOrder]
    ELSE IF r2 # errSecSuccess
      THEN [fail |-> "connection", ret |-> r2, shim |-> "freed", frees |-> 1,
            connRef |-> "null", streamAt |-> "dropped", todo |-> CtxDropOrder]
      ELSE [fail |-> "none", ret |-> errSecSuccess, shim |-> "live",
            frees |-> 0, connRef |-> "shim", streamAt |-> "shim",
            todo |-> <<>>]

\* HandshakeError::Failure(Error): the variant holds the status and nothing else.
Failure(st) == [kind |-> "Failure", reason |-> st, hasStream |-> FALSE]

\* The match on SSLHandshake's status in SslContext::handshake.
HandshakeResult(st) ==
  CASE st = errSecSuccess -> [kind |-> "Ok", reason |-> "none", hasStream |-> TRUE]
    [] st = errSSLPeerAuthCompleted ->
         [kind |-> "ServerAuthCompleted", reason |-> "none", hasStream |-> TRUE]
    [] st = errSSLClientCertRequested ->
         [kind |-> "ClientCertRequested", reason |-> "none", hasStream |-> TRUE]
    [] st = errSSLWouldBlock ->
         [kind |-> "WouldBlock", reason |-> "none", hasStream |-> TRUE]
    [] OTHER -> Failure(st)

\* Variant: the resume has no arm for errSSLWouldBlock.
MidHandshakeResult_NoWouldBlock(st) ==
  CASE st = errSecSuccess -> [kind |-> "Ok", reason |-> "none", hasStream |-> TRUE]
    [] st = errSSLPeerAuthCompleted ->
         [kind |-> "ServerAuthCompleted", reason |-> "none", hasStream |-> TRUE]
    [] st = errSSLClientCertRequested ->
         [kind |-> "ClientCertRequested", reason |-> "none", hasStream |-> TRUE]
    [] OTHER -> Failure(st)

\* Variant: the resume swaps the two pause arms.
MidHandshakeResult_Swapped(st) ==
  CASE st = errSecSuccess -> [kind |-> "Ok", reason |-> "none", hasStream |-> TRUE]
    [] st = errSSLPeerAuthCompleted ->
         [kind |-> "ClientCertRequested", reason |-> "none", hasStream |-> TRUE]
    [] st = errSSLClientCertRequested ->
         [kind |-> "ServerAuthCompleted", reason |-> "none", hasStream |-> TRUE]
    [] st = errSSLWouldBlock ->
         [kind |-> "WouldBlock", reason |-> "none", hasStream |-> TRUE]
    [] OTHER -> Failure(st)

\* The match on SSLHandshake's status in MidHandshakeSslStream::handshake.
MidHandshakeResult(st) ==
  CASE st = errSecSuccess -> [kind |-> "Ok", reason |-> "none", hasStream |-> TRUE]
    [] st = errSSLPeerAuthCompleted ->
         [kind |-> "ServerAuthCompleted", reason |-> "none", hasStream |-> TRUE]
    [] st = errSSLClientCertRequested ->
         [kind |-> "ClientCertRequested", reason |-> "none", hasStream |-> TRUE]
    [] st = errSSLWouldBlock ->
         [kind |-> "WouldBlock", reason |-> "none", hasStream |-> TRUE]
    [] OTHER -> Failure(st)

\* Variant: the drive step calls SSLHandshake again while it would block.
AfterAdvance_RetryWouldBlock(st) ==
  IF st = errSSLWouldBlock THEN "again" ELSE "return"

\* What a drive step does once SSLHandshake has returned st: every arm of
\* its match returns to the caller, none calls SSLHandshake again.
AfterAdvance(st) == "return"

\* Variant: the value handed back on success can still be resumed.
OwnerAfter_KeepsMid(res) == "mid"

\* The value a drive step hands back: Ok(SslStream) on success, a
\* MidHandshakeSslStream inside the three pause variants.
OwnerAfter(res) == IF res.kind = "Ok" THEN "stream" ELSE "mid"

\* SslContext::handshake(self, stream), up to the call of SSLHandshake.
HandshakeBegin ==
  /\ query' = NoQuery
  /\ UNCHANGED config
  /\ pc = "idle"
  /\ owner = "ctx"
  /\ \E r1 \in InstallStatuses, r2 \in InstallStatuses :
       LET i == Install(r1, r2)
       IN /\ shim' = i.shim
          /\ freeCount' = freeCount + i.frees
          /\ freedBy' = IF i.frees > 0 THEN freedBy \cup {"install"} ELSE freedBy
          /\ connRef' = i.connRef
          /\ streamAt' = i.streamAt
          /\ status' = i.ret
          /\ pre' = [paused |-> "none", ready |-> streamReady, shim |-> shim,
                     ctx |-> ctxAlloc, install |-> i.fail]
          /\ IF i.fail = "none"
               THEN /\ pc' = "engine"
                    /\ ecall' = "SSLHandshake"
                    /\ advances' = 1
                    /\ owner' = "local"
                    /\ outcome' = NoOutcome
                    /\ UNCHANGED <<todo, tearing>>
               ELSE /\ pc' = "drop"
                    /\ ecall' = "none"
                    /\ advances' = 0
                    /\ owner' = "tearing"
                    /\ outcome' = Failure(i.ret)
                    /\ todo' = i.todo
                    /\ tearing' = "install"
  /\ op' = "handshake"
  /\ ioCount' = 0
  /\ cbRet' = NoCbRet
  /\ cb' = NoCb
  /\ closeSignalled' = FALSE
  /\ UNCHANGED <<paused, resumes, ctxAlloc, sessState, pending, connErr,
                 streamReady, ioRes, cbOnFreed, connected>>

\* MidHandshakeSslStream::handshake(self), up to the call of SSLHandshake.
Resume ==
  /\ query' = NoQuery
  /\ UNCHANGED config
  /\ pc = "idle"
  /\ owner = "mid"
  /\ resumes < MaxResumes
  /\ resumes' = resumes + 1
  /\ pre' = [paused |-> paused, ready |-> streamReady, shim |-> shim,
             ctx |-> ctxAlloc, install |-> "none"]
  /\ pc' = "engine"
  /\ ecall' = "SSLHandshake"
  /\ advances' = 1
  /\ owner' = "local"
  /\ op' = "resume"
  /\ outcome' = NoOutcome
  /\ status' = "none"
  /\ ioCount' = 0
  /\ cbRet' = NoCbRet
  /\ cb' = NoCb
  /\ UNCHANGED <<paused, ctxAlloc, connRef, sessState, pending, shim,
                 freeCount, freedBy, connErr, streamAt, streamReady, todo,
                 tearing, ioRes, closeSignalled, cbOnFreed, connected>>

\* SSLHandshake returns and the drive step matches on its status.  A paused
\* or established value takes the SslStream; on Failure the SslStream goes
\* out of scope and its drop glue runs before the call returns.
HandshakeReturn ==
  /\ UNCHANGED <<query, peerId, idSet, peerDomainName, nameSet,
                 breakOnServerAuth, breakAsked, peerMatches>>
  /\ pc = "engine"
  /\ ecall = "SSLHandshake"
  /\ ReturnAllowed
  /\ \E st \in HandshakeStatuses :
       LET res == IF op = "handshake" THEN HandshakeResult(st)
                                      ELSE MidHandshakeResult(st)
       IN /\ status' = st
          /\ sessState' = SessionAfterHandshake(st)
          /\ authDone' = (authDone \/ st = errSSLPeerAuthCompleted)
          /\ IF AfterAdvance(st) = "again"
               THEN /\ advances' = advances + 1
                    /\ UNCHANGED <<pc, ecall, owner, paused, outcome, todo,
                                   tearing, closeSignalled, connected>>
               ELSE /\ outcome' = res
                    /\ ecall' = "none"
                    /\ connected' = (connected \/ res.kind = "Ok")
                    /\ UNCHANGED advances
                    /\ IF res.kind = "Failure"
                         THEN /\ pc' = "drop"
                              /\ owner' = "tearing"
                              /\ paused' = "none"
                              /\ todo' = DropOrder
                              /\ tearing' = "failed"
                              /\ closeSignalled' = FALSE
                         ELSE /\ pc' = "idle"
                              /\ owner' = OwnerAfter(res)
                              /\ paused' = IF res.kind = "Ok" THEN "none"
                                                              ELSE res.kind
                              /\ UNCHANGED <<todo, tearing, closeSignalled>>
  /\ ioCount' = 0
  /\ cbRet' = NoCbRet
  /\ cb' = NoCb
  /\ UNCHANGED <<op, resumes, ctxAlloc, connRef, pending, shim, freeCount,
                 freedBy, connErr, streamAt, streamReady, ioRes, pre, cbOnFreed>>

\* --------------------------------------------------------- teardown
\* The owner lets go of its value: an unused SslContext, a paused
\* MidHandshakeSslStream, or an established SslStream.
Drop ==
  /\ UNCHANGED drive
  /\ query' = NoQuery
  /\ UNCHANGED config
  /\ pc = "idle"
  /\ owner \in {"ctx", "mid", "stream"}
  /\ tearing' = owner
  /\ todo' = IF owner = "ctx" THEN CtxDropOrder ELSE DropOrder
  /\ pre' = [paused |-> paused, ready |-> streamReady, shim |-> shim,
             ctx |-> ctxAlloc, install |-> "none"]
  /\ owner' = "tearing"
  /\ paused' = "none"
  /\ pc' = "drop"
  /\ op' = "drop"
  /\ closeSignalled' = FALSE
  /\ UNCHANGED <<resumes, ctxAlloc, connRef, sessState, pending, shim,
                 freeCount, freedBy, connErr, streamAt, streamReady, ecall,
                 ioCount, cbRet, cb, status, outcome, ioRes, cbOnFreed>>

\* What is left of the drop glue once its first step has run.
Rest == Tail(todo)

AfterStepPc == IF Rest = <<>> THEN "idle" ELSE "drop"

AfterStepOwner == IF Rest = <<>> THEN "none" ELSE owner

\* Drop for SslStream: SSLClose(self.ctx.0).
DropClose ==
  /\ UNCHANGED drive
  /\ UNCHANGED <<query, config>>
  /\ pc = "drop"
  /\ Head(todo) = "close"
  /\ pc' = "engine"
  /\ ecall' = "SSLClose"
  /\ ioCount' = 0
  /\ cbRet' = NoCbRet
  /\ cb' = NoCb
  /\ closeSignalled' = TRUE
  /\ UNCHANGED <<op, owner, paused, resumes, ctxAlloc, connRef, sessState,
                 pending, shim, freeCount, freedBy, connErr, streamAt,
                 streamReady, todo, tearing, status, outcome, ioRes, pre,
                 cbOnFreed>>

\* SSLClose returns; its status is discarded.
CloseReturn ==
  /\ UNCHANGED drive
  /\ UNCHANGED <<query, config>>
  /\ pc = "engine"
  /\ ecall = "SSLClose"
  /\ sessState' = IF sessState = "Idle" THEN "Idle" ELSE "Closed"
  /\ pending' = "none"
  /\ ecall' = "none"
  /\ ioCount' = 0
  /\ cbRet' = NoCbRet
  /\ cb' = NoCb
  /\ todo' = Rest
  /\ pc' = AfterStepPc
  /\ owner' = AfterStepOwner
  /\ UNCHANGED <<op, paused, resumes, ctxAlloc, connRef, shim, freeCount,
                 freedBy, connErr, streamAt, streamReady, tearing, status,
                 outcome, ioRes, pre, closeSignalled, cbOnFreed>>

\* Box::<Connection<S>>::from_raw(conn), dropped at once: the Connection the
\* engine's back-reference points at is freed.
\* Variant: the raw pointer is fetched but never turned back into a Box.
Reclaim_Forget(ref, sh) == [shim |-> sh, frees |-> 0]

Reclaim(ref, sh) ==
  IF ref = "shim" THEN [shim |-> "freed", frees |-> 1]
                  ELSE [shim |-> sh, frees |-> 0]

\* Drop for SslStream: SSLGetConnection (it returns errSecSuccess and the
\* installed reference, as the assert! expects), then Box::from_raw(conn) is
\* dropped, and with it the caller's stream.
DropReclaim ==
  /\ UNCHANGED drive
  /\ UNCHANGED <<query, config>>
  /\ pc = "drop"
  /\ Head(todo) = "reclaim"
  /\ shim' = Reclaim(connRef, shim).shim
  /\ freeCount' = freeCount + Reclaim(connRef, shim).frees
  /\ freedBy' = IF Reclaim(connRef, shim).frees > 0 THEN freedBy \cup {"drop"}
                                                   ELSE freedBy
  /\ streamAt' = IF shim' = "freed" THEN "dropped" ELSE streamAt
  /\ connErr' = IF shim' = "freed" THEN "None" ELSE connErr
  /\ todo' = Rest
  /\ pc' = AfterStepPc
  /\ owner' = AfterStepOwner
  /\ UNCHANGED <<op, paused, resumes, ctxAlloc, connRef, sessState, pending,
                 streamReady, ecall, ioCount, cbRet, cb, tearing, status,
                 outcome, ioRes, pre, closeSignalled, cbOnFreed>>

\* Drop for SslContext: SSLDisposeContext / CFRelease.  The SslContext is the
\* only owner of the SSLContextRef, so either call frees the engine state.
DropContext ==
  /\ UNCHANGED drive
  /\ UNCHANGED <<query, config>>
  /\ pc = "drop"
  /\ Head(todo) = "ctx"
  /\ ctxAlloc' = FALSE
  /\ connRef' = "null"
  /\ sessState' = "Disposed"
  /\ pending' = "none"
  /\ todo' = Rest
  /\ pc' = AfterStepPc
  /\ owner' = AfterStepOwner
  /\ UNCHANGED <<op, paused, resumes, shim, freeCount, freedBy, connErr,
                 streamAt, streamReady, ecall, ioCount, cbRet, cb, tearing,
                 status, outcome, ioRes, pre, closeSignalled, cbOnFreed>>

\* The caller's stream becomes ready or not-ready between two API calls.
SetReady ==
  /\ UNCHANGED drive
  /\ UNCHANGED <<query, config>>
  /\ pc = "idle"
  /\ shim = "live"
  /\ streamReady' = ~streamReady
  /\ UNCHANGED <<pc, op, owner, paused, resumes, ctxAlloc, connRef, sessState,
                 pending, shim, freeCount, freedBy, connErr, streamAt, ecall,
                 ioCount, cbRet, cb, todo, tearing, status, outcome, ioRes,
                 pre, closeSignalled, cbOnFreed>>

\* ------------------------------------------- the established stream
\* Statuses SSLRead / SSLWrite may return now.
IoStatuses ==
  IF cbRet.done /\ cbRet.ret # errSecSuccess
    THEN {cbRet.ret}
    ELSE {errSecSuccess, errSSLClosedGraceful, errSSLProtocol}

SessionAfterIo(st) ==
  CASE st \in {errSecSuccess, errSSLWouldBlock} -> sessState
    [] st \in {errSSLClosedGraceful, errSSLClosedNoNotify} -> "Closed"
    [] OTHER -> "Aborted"

\* Variant: the stored error is copied out and stays in conn.err.
get_error_KeepSlot(ret, e) ==
  IF e # "None"
    THEN [err |-> [from |-> "stream", kind |-> e, code |-> "none"], slot |-> e]
    ELSE [err |-> [from |-> "status", kind |-> "Other", code |-> ret], slot |-> "None"]

\* SslStream::get_error: conn.err.take(), or a generic error of kind Other
\* that wraps the status.
get_error(ret, e) ==
  IF e # "None"
    THEN [err |-> [from |-> "stream", kind |-> e, code |-> "none"], slot |-> "None"]
    ELSE [err |-> [from |-> "status", kind |-> "Other", code |-> ret], slot |-> "None"]

NoErr == [from |-> "none", kind |-> "None", code |-> "none"]

\* Variant: only the two orderly closed statuses end the input.
ReadResult_AbortIsError(ret, nread, e) ==
  CASE ret = errSecSuccess -> [kind |-> "Ok", n |-> nread, err |-> NoErr, slot |-> e]
    [] ret \in {errSSLClosedGraceful, errSSLClosedNoNotify} ->
         [kind |-> "Ok", n |-> 0, err |-> NoErr, slot |-> e]
    [] OTHER -> [kind |-> "Err", n |-> 0, err |-> get_error(ret, e).err,
                 slot |-> get_error(ret, e).slot]

\* The match on SSLRead's status in SslStream::read.
ReadResult(ret, nread, e) ==
  CASE ret = errSecSuccess -> [kind |-> "Ok", n |-> nread, err |-> NoErr, slot |-> e]
    [] ret \in {errSSLClosedGraceful, errSSLClosedAbort, errSSLClosedNoNotify} ->
         [kind |-> "Ok", n |-> 0, err |-> NoErr, slot |-> e]
    [] OTHER -> [kind |-> "Err", n |-> 0, err |-> get_error(ret, e).err,
                 slot |-> get_error(ret, e).slot]

\* Variant: write treats the closed statuses as read does.
WriteResult_ClosedIsOk(ret, nwritten, e) ==
  CASE ret = errSecSuccess -> [kind |-> "Ok", n |-> nwritten, err |-> NoErr, slot |-> e]
    [] ret \in {errSSLClosedGraceful, errSSLClosedAbort, errSSLClosedNoNotify} ->
         [kind |-> "Ok", n |-> 0, err |-> NoErr, slot |-> e]
    [] OTHER -> [kind |-> "Err", n |-> 0, err |-> get_error(ret, e).err,
                 slot |-> get_error(ret, e).slot]

\* The test of SSLWrite's status in SslStream::write.
WriteResult(ret, nwritten, e) ==
  IF ret = errSecSuccess
    THEN [kind |-> "Ok", n |-> nwritten, err |-> NoErr, slot |-> e]
    ELSE [kind |-> "Err", n |-> 0, err |-> get_error(ret, e).err,
          slot |-> get_error(ret, e).slot]

\* SslStream::read / SslStream::write, up to the native call.
IoBegin ==
  /\ UNCHANGED drive
  /\ query' = NoQuery
  /\ UNCHANGED config
  /\ pc = "idle"
  /\ owner = "stream"
  /\ \E o \in {"read", "write"} :
       /\ op' = o
       /\ ecall' = IF o = "read" THEN "SSLRead" ELSE "SSLWrite"
  /\ pc' = "engine"
  /\ ioCount' = 0
  /\ cbRet' = NoCbRet
  /\ cb' = NoCb
  /\ ioRes' = NoIoRes
  /\ pre' = [paused |-> "none", ready |-> streamReady, shim |-> shim,
             ctx |-> ctxAlloc, install |-> "none"]
  /\ UNCHANGED <<owner, paused, resumes, ctxAlloc, connRef, sessState, pending,
                 shim, freeCount, freedBy, connErr, streamAt, streamReady,
                 todo, tearing, status, outcome, closeSignalled, cbOnFreed>>

\* SSLRead / SSLWrite returns a status and the number of bytes it processed.
IoReturn ==
  /\ UNCHANGED drive
  /\ UNCHANGED <<query, config>>
  /\ pc = "engine"
  /\ ecall \in {"SSLRead", "SSLWrite"}
  /\ ReturnAllowed
  /\ \E st \in IoStatuses, n \in 0..MaxBuf :
       LET r == IF ecall = "SSLRead" THEN ReadResult(st, n, connErr)
                                     ELSE WriteResult(st, n, connErr)
       IN /\ ioRes' = [kind |-> r.kind, n |-> r.n, err |-> r.err, ret |-> st,
                       nio |-> n, had |-> connErr,
                       fresh |-> (cb.lastErr # "None")]
          /\ connErr' = r.slot
          /\ sessState' = SessionAfterIo(st)
  /\ pc' = "idle"
  /\ ecall' = "none"
  /\ ioCount' = 0
  /\ cbRet' = NoCbRet
  /\ cb' = NoCb
  /\ UNCHANGED <<op, owner, paused, resumes, ctxAlloc, connRef, pending, shim,
                 freeCount, freedBy, streamAt, streamReady, todo, tearing,
                 status, outcome, pre, closeSignalled, cbOnFreed>>

\* Variant: a failing flush goes through get_error and empties conn.err.
Flush_TakesError ==
  /\ UNCHANGED drive
  /\ query' = NoQuery
  /\ UNCHANGED config
  /\ pc = "idle"
  /\ owner = "stream"
  /\ op' = "flush"
  /\ connErr' = "None"
  /\ \E k \in IF streamReady THEN ErrorKinds \cup {"None"} ELSE {"WouldBlock"} :
       ioRes' = [kind |-> IF k = "None" THEN "Ok" ELSE "Err", n |-> 0,
                 err |-> IF k = "None" THEN NoErr
                         ELSE [from |-> "stream", kind |-> k, code |-> "none"],
                 ret |-> "none", nio |-> 0, had |-> connErr,
                 fresh |-> FALSE]
  /\ UNCHANGED <<pc, owner, paused, resumes, ctxAlloc, connRef, sessState,
                 pending, shim, freeCount, freedBy, streamAt,
                 streamReady, ecall, ioCount, cbRet, cb, todo, tearing, status,
                 outcome, pre, closeSignalled, cbOnFreed>>

\* SslStream::flush: the stream's own flush, nothing else.
Flush ==
  /\ UNCHANGED drive
  /\ query' = NoQuery
  /\ UNCHANGED config
  /\ pc = "idle"
  /\ owner = "stream"
  /\ op' = "flush"
  /\ \E k \in IF streamReady THEN ErrorKinds \cup {"None"} ELSE {"WouldBlock"} :
       ioRes' = [kind |-> IF k = "None" THEN "Ok" ELSE "Err", n |-> 0,
                 err |-> IF k = "None" THEN NoErr
                         ELSE [from |-> "stream", kind |-> k, code |-> "none"],
                 ret |-> "none", nio |-> 0, had |-> connErr,
                 fresh |-> FALSE]
  /\ UNCHANGED <<pc, owner, paused, resumes, ctxAlloc, connRef, sessState,
                 pending, shim, freeCount, freedBy, connErr, streamAt,
                 streamReady, ecall, ioCount, cbRet, cb, todo, tearing, status,
                 outcome, pre, closeSignalled, cbOnFreed>>

\* ------------------------------------- configuration and queries
\* Variant: the flag is passed inverted.
AsBoolean_Inverted(value) == IF value THEN 0 ELSE 1

\* `value as Boolean`: the bool handed to SSLSetSessionOption.
AsBoolean(value) == IF value THEN 1 ELSE 0

\* SslContext::set_break_on_server_auth(value), made before the handshake.
SetBreakOnServerAuth ==
  /\ UNCHANGED drive
  /\ pc = "idle"
  /\ owner = "ctx"
  /\ \E value \in BOOLEAN :
       /\ breakAsked' = value
       /\ breakOnServerAuth' = AsBoolean(value)
       /\ query' = [NoQuery EXCEPT !.op = "set_break_on_server_auth",
                                   !.res = "Ok"]
  /\ UNCHANGED <<pc, op, owner, paused, resumes, ctxAlloc, connRef, sessState,
                 pending, shim, freeCount, freedBy, connErr, streamAt,
                 streamReady, ecall, ioCount, cbRet, cb, todo, tearing, status,
                 outcome, ioRes, pre, closeSignalled, cbOnFreed, peerId,
                 idSet, peerDomainName, nameSet, authDone, peerMatches>>

\* The code SSLGetSessionState stores for the session's state.
RawState(st) ==
  CASE st = "Idle" -> "kSSLIdle"
    [] st = "Handshake" -> "kSSLHandshake"
    [] st = "Connected" -> "kSSLConnected"
    [] st = "Closed" -> "kSSLClosed"
    [] OTHER -> "kSSLAborted"

\* SessionState::from_raw.
from_raw(raw) ==
  CASE raw = "kSSLIdle" -> "Idle"
    [] raw = "kSSLHandshake" -> "Handshake"
    [] raw = "kSSLConnected" -> "Connected"
    [] raw = "kSSLClosed" -> "Closed"
    [] raw = "kSSLAborted" -> "Aborted"
    [] OTHER -> "panic"

\* Statuses SSLCopyPeerTrust may return.
CopyPeerTrustStatuses == {errSecSuccess, errSecBadReq}

\* Variant: SSLCopyPeerTrust is called whatever the state of the session.
peer_trust_NoIdleCheck(raw, ct) ==
  IF from_raw(raw) = "panic"
    THEN [res |-> "panic", code |-> "none", copied |-> FALSE]
    ELSE [res |-> IF ct = errSecSuccess THEN "Ok" ELSE "Err",
          code |-> IF ct = errSecSuccess THEN "none" ELSE ct,
          copied |-> TRUE]

\* SslContext::peer_trust, given the state code SSLGetSessionState stored and
\* the status SSLCopyPeerTrust returns if it is called.
peer_trust(raw, ct) ==
  IF from_raw(raw) = "panic"
    THEN [res |-> "panic", code |-> "none", copied |-> FALSE]
    ELSE IF from_raw(raw) = "Idle"
      THEN [res |-> "Err", code |-> errSecBadReq, copied |-> FALSE]
      ELSE [res |-> IF ct = errSecSuccess THEN "Ok" ELSE "Err",
            code |-> IF ct = errSecSuccess THEN "none" ELSE ct,
            copied |-> TRUE]

\* A call of peer_trust on the context of the value that owns the session.
PeerTrust ==
  /\ UNCHANGED drive
  /\ pc = "idle"
  /\ owner \in {"ctx", "mid", "stream"}
  /\ \E ct \in CopyPeerTrustStatuses :
       LET r == peer_trust(RawState(sessState), ct)
       IN query' = [NoQuery EXCEPT !.op = "peer_trust", !.res = r.res,
                                   !.code = r.code, !.copied = r.copied,
                                   !.state = sessState]
  /\ UNCHANGED <<pc, op, owner, paused, resumes, ctxAlloc, connRef, sessState,
                 pending, shim, freeCount, freedBy, connErr, streamAt,
                 streamReady, ecall, ioCount, cbRet, cb, todo, tearing, status,
                 outcome, ioRes, pre, closeSignalled, cbOnFreed, config>>

\* The state of the session apart from its configuration.
session == <<pc, op, owner, paused, resumes, ctxAlloc, connRef, sessState,
             pending, shim, freeCount, freedBy, connErr, streamAt, streamReady,
             ecall, ioCount, cbRet, cb, todo, tearing, status, outcome, ioRes,
             pre, closeSignalled, cbOnFreed, advances, connected>>

\* Byte strings a caller may hand to set_peer_id, the empty one included.
PeerIds == UNION {[1..n -> 0..MaxByte] : n \in 0..MaxIdLen}

\* Statuses SSLSetPeerID may return for an identifier of len bytes: it
\* refuses an empty identifier and may refuse any other.
SetPeerIdStatuses(len) ==
  IF len = 0 THEN {errSecBadReq} ELSE {errSecSuccess, errSecBadReq}

\* The arguments set_peer_id hands to SSLSetPeerID: peer_id.as_ptr() and
\* peer_id.len().
set_peer_id(bytes) == [ptr |-> bytes, len |-> Len(bytes)]

\* The copy SSLSetPeerID keeps of len bytes at ptr.
StoredId(a) == [some |-> TRUE, data |-> SubSeq(a.ptr, 1, a.len)]

\* SslContext::set_peer_id(peer_id) on a session not yet started.
SetPeerId ==
  /\ pc = "idle"
  /\ owner = "ctx"
  /\ \E bytes \in PeerIds :
       \E st \in SetPeerIdStatuses(set_peer_id(bytes).len) :
         /\ peerId' = IF st = errSecSuccess THEN StoredId(set_peer_id(bytes))
                                            ELSE peerId
         /\ idSet' = IF st = errSecSuccess THEN [some |-> TRUE, data |-> bytes]
                                           ELSE idSet
         /\ query' = [NoQuery EXCEPT
                        !.op = "set_peer_id", !.arg = bytes,
                        !.res = IF st = errSecSuccess THEN "Ok" ELSE "Err",
                        !.code = IF st = errSecSuccess THEN "none" ELSE st]
  /\ UNCHANGED <<session, peerDomainName, nameSet, breakOnServerAuth,
                 breakAsked, authDone, peerMatches>>

\* Variant: the pointer SSLGetPeerID stored is not tested for null.
peer_id_NoNullCheck(id, len) ==
  [some |-> TRUE, data |-> SubSeq(id.data, 1, len)]

\* SslContext::peer_id after SSLGetPeerID succeeded: None for a null pointer,
\* else the len bytes at the pointer.
peer_id(id, len) ==
  IF ~id.some THEN NoId ELSE [some |-> TRUE, data |-> SubSeq(id.data, 1, len)]

\* SslContext::peer_id(): SSLGetPeerID stores the pointer to the engine's
\* copy and its length.
PeerId ==
  /\ pc = "idle"
  /\ owner = "ctx"
  /\ query' = [NoQuery EXCEPT !.op = "peer_id", !.res = "Ok",
                              !.val = peer_id(peerId, Len(peerId.data))]
  /\ UNCHANGED <<session, config>>

\* The configuration of a session before its handshake.
NextConfig ==
  \/ SetPeerId
  \/ PeerId

SpecConfig == Init /\ [][NextConfig]_vars

\* Strings a caller may hand to set_peer_domain_name, as their UTF-8 bytes,
\* the empty string included.
Names == UNION {[1..n -> 0..MaxByte] : n \in 0..MaxNameLen}

\* Statuses SSLSetPeerDomainName may return.
SetPeerDomainNameStatuses == {errSecSuccess, errSecBadReq}

\* Variant: the name is handed over with a terminating NUL.
set_peer_domain_name_NulTerminated(name) ==
  [ptr |-> Append(name, 0), len |-> Len(name) + 1]

\* The arguments set_peer_domain_name hands to SSLSetPeerDomainName:
\* peer_name.as_ptr() and peer_name.len(), no terminating NUL.
set_peer_domain_name(name) == [ptr |-> name, len |-> Len(name)]

\* SslContext::set_peer_domain_name(peer_name) on a session not yet started;
\* the engine keeps a copy of the len bytes at ptr.
SetPeerDomainName ==
  /\ pc = "idle"
  /\ owner = "ctx"
  /\ \E name \in Names, st \in SetPeerDomainNameStatuses :
       LET a == set_peer_domain_name(name)
       IN /\ peerDomainName' = IF st = errSecSuccess THEN SubSeq(a.ptr, 1, a.len)
                                                     ELSE peerDomainName
          /\ nameSet' = IF st = errSecSuccess THEN name ELSE nameSet
          /\ query' = [NoQuery EXCEPT
                         !.op = "set_peer_domain_name", !.arg = name,
                         !.res = IF st = errSecSuccess THEN "Ok" ELSE "Err",
                         !.code = IF st = errSecSuccess THEN "none" ELSE st]
  /\ UNCHANGED <<session, peerId, idSet, breakOnServerAuth, breakAsked,
                 authDone, peerMatches>>

\* SslContext::peer_domain_name after both native calls succeeded: a buffer
\* of len zero bytes (len from SSLGetPeerDomainNameLength), over which
\* SSLGetPeerDomainName has copied the engine's bytes, read as a String.
peer_domain_name(len, bytes) ==
  [i \in 1..len |-> IF i <= Len(bytes) THEN bytes[i] ELSE 0]

\* SslContext::peer_domain_name().
PeerDomainName ==
  /\ pc = "idle"
  /\ owner = "ctx"
  /\ query' = [NoQuery EXCEPT
                 !.op = "peer_domain_name", !.res = "Ok",
                 !.val = [some |-> TRUE,
                          data |-> peer_domain_name(Len(peerDomainName),
                                                    peerDomainName)]]
  /\ UNCHANGED <<session, config>>

\* The peer domain name of a session before its handshake.
NextDomainName ==
  \/ SetPeerDomainName
  \/ PeerDomainName

SpecDomainName == Init /\ [][NextDomainName]_vars

Next ==
  \/ HandshakeBegin
  \/ Resume
  \/ EngineCallback
  \/ CbIter
  \/ CbReturn
  \/ HandshakeReturn
  \/ Drop
  \/ DropClose
  \/ CloseReturn
  \/ DropReclaim
  \/ DropContext
  \/ SetReady
  \/ IoBegin
  \/ IoReturn
  \/ Flush
  \/ SetBreakOnServerAuth
  \/ PeerTrust

Spec == Init /\ [][Next]_vars

\* ------------------------------------------------------------ claims
\* A drive step that got past the installation has produced its result.
DriveStepDone ==
  /\ op \in {"handshake", "resume"}
  /\ pre.install = "none"
  /\ outcome.kind # "none"

PauseStatuses ==
  {errSSLPeerAuthCompleted, errSSLClientCertRequested, errSSLWouldBlock}

\* C1: the result of every drive step, initial or resumed, is fixed by the
\* status SSLHandshake returned: success gives the established stream, the
\* three pause statuses give their pause, every other status gives Failure
\* carrying that status.
C1_OutcomeByStatus ==
  DriveStepDone =>
    /\ (outcome.kind = "Ok") <=> (status = errSecSuccess)
    /\ (outcome.kind = "ServerAuthCompleted") <=> (status = errSSLPeerAuthCompleted)
    /\ (outcome.kind = "ClientCertRequested") <=> (status = errSSLClientCertRequested)
    /\ (outcome.kind = "WouldBlock") <=> (status = errSSLWouldBlock)
    /\ (outcome.kind = "Failure") <=> (status \notin PauseStatuses \cup {errSecSuccess})
    /\ (outcome.kind = "Failure") => (outcome.reason = status)
    /\ (outcome.kind = "Ok") <=> (owner = "stream")
    /\ (outcome.kind \in {"ServerAuthCompleted", "ClientCertRequested", "WouldBlock"})
         <=> (owner = "mid" /\ paused = outcome.kind)

C1_Witness ==
  /\ DriveStepDone
  /\ op = "resume"
  /\ pre.paused = "WouldBlock"
  /\ status = errSSLPeerAuthCompleted
  /\ outcome.kind = "ServerAuthCompleted"

\* C2: a resume of a handshake paused on would-block, made while the stream
\* answers WouldBlock to every call, ends in the WouldBlock pause again, with
\* the same engine state and the same shim; never in success or failure.
C2_BlockedResumeStaysWouldBlock ==
  (op = "resume" /\ pre.paused = "WouldBlock" /\ ~pre.ready /\ outcome.kind # "none")
    => /\ outcome.kind = "WouldBlock"
       /\ owner = "mid"
       /\ paused = "WouldBlock"
       /\ shim = "live"
       /\ freeCount = 0
       /\ ctxAlloc
       /\ connRef = "shim"
       /\ streamAt = "shim"

C2_Witness ==
  /\ op = "resume"
  /\ resumes = MaxResumes
  /\ pre.paused = "WouldBlock"
  /\ ~pre.ready
  /\ outcome.kind = "WouldBlock"

\* C3: a drive step that ends in Failure is terminal: the failure value holds
\* no stream, nothing but the teardown runs before the call returns, and when
\* it has returned the shim and the engine state are both released and no
\* value is left on which a further drive step could be made.
C3_FailureIsTerminal ==
  (DriveStepDone /\ outcome.kind = "Failure")
    => /\ ~outcome.hasStream
       /\ streamAt # "caller"
       /\ tearing = "failed"
       /\ owner \in {"tearing", "none"}
       /\ pc # "idle" => (pc = "drop" \/ ecall = "SSLClose")
       /\ pc = "idle" => /\ owner = "none"
                         /\ shim = "freed"
                         /\ freeCount = 1
                         /\ streamAt = "dropped"
                         /\ ~ctxAlloc

C3_Witness ==
  /\ DriveStepDone
  /\ op = "resume"
  /\ outcome.kind = "Failure"
  /\ outcome.reason = errSecIO
  /\ pc = "idle"

\* The installation inside SslContext::handshake failed and the call returned.
InstallFailed == op = "handshake" /\ pre.install # "none"

\* C4 (as claimed): after a failed installation the stream is handed back
\* inside the failure and neither shim nor engine state stays allocated.
C4_StreamHandedBack ==
  (InstallFailed /\ pc = "idle")
    => /\ outcome.kind = "Failure"
       /\ outcome.hasStream
       /\ streamAt = "caller"
       /\ shim # "live"
       /\ ~ctxAlloc

\* C4 (amended): after a failed installation the failure holds the status of
\* the failed call and no stream; the stream is dropped with the call, a shim
\* that was boxed is reclaimed at once, and when the call has returned no shim
\* and no engine state stays allocated.
C4_InstallFailureReleasesAll ==
  InstallFailed
    => /\ outcome = Failure(status)
       /\ status # errSecSuccess
       /\ ~outcome.hasStream
       /\ streamAt = "dropped"
       /\ shim = (IF pre.install = "connection" THEN "freed" ELSE "none")
       /\ freeCount = (IF pre.install = "connection" THEN 1 ELSE 0)
       /\ ~closeSignalled
       /\ pc = "idle" => (~ctxAlloc /\ owner = "none")

C4_Witness ==
  /\ InstallFailed
  /\ pre.install = "connection"
  /\ pc = "idle"
  /\ shim = "freed"

\* C5: when a paused MidHandshakeSslStream has been dropped, whatever its
\* pause and however often it was resumed before, the engine state, the shim
\* and the stream the shim owned are all released.
C5_AbandonedPauseReleasesAll ==
  (op = "drop" /\ tearing = "mid" /\ pc = "idle")
    => /\ ~ctxAlloc
       /\ shim = "freed"
       /\ freeCount = 1
       /\ streamAt = "dropped"
       /\ owner = "none"
       /\ connRef = "null"

C5_Witness ==
  /\ op = "drop"
  /\ tearing = "mid"
  /\ pc = "idle"
  /\ pre.paused = "WouldBlock"
  /\ resumes >= 1
  /\ shim = "freed"

\* C6: a shim that was allocated is reclaimed exactly once: never a second
\* time, never by two code paths, and it is not left allocated once no value
\* owns the session any more.
C6_ShimReclaimedExactlyOnce ==
  /\ freeCount <= 1
  /\ Cardinality(freedBy) <= 1
  /\ (shim = "freed") <=> (freeCount = 1)
  /\ (shim = "none") => (freedBy = {})
  /\ (owner = "none") => (shim # "live")
  /\ (shim = "live") => (streamAt = "shim")

C6_Witness ==
  /\ owner = "none"
  /\ tearing = "stream"
  /\ ioRes.kind = "Err"
  /\ shim = "freed"
  /\ freedBy = {"drop"}

\* C7: in every teardown of an SslStream SSLClose is called before the shim
\* is reclaimed: the shim is alive during the whole of SSLClose, the write
\* callback of the close alert included.
C7_CloseBeforeReclaim ==
  /\ ("drop" \in freedBy) => closeSignalled
  /\ (ecall = "SSLClose") => (shim = "live" /\ connRef = "shim")
  /\ (tearing \in {"mid", "stream", "failed"} /\ pc = "idle" /\ owner = "none")
       => closeSignalled

C7_Witness ==
  /\ ecall = "SSLClose"
  /\ pc = "cb"
  /\ cb.kind = "write"
  /\ cb.calls > 0
  /\ tearing = "mid"

\* The shim is reclaimed while live engine state still points at it.
Dangling == shim = "freed" /\ ctxAlloc /\ connRef = "shim"

\* C8 (as claimed): no reachable state has the shim reclaimed while live
\* engine state still holds the reference to it, and no callback runs against
\* a reclaimed shim.
C8_NoDanglingBackReference ==
  /\ ~Dangling
  /\ ~cbOnFreed

\* C8 (amended): the back-reference is never cleared; the shim is reclaimed
\* first and the engine state that holds the reference is released by the
\* very next step of the same teardown, with no native call in between, so no
\* callback ever runs against a reclaimed shim.
C8_DanglingOnlyUntilContextDrop ==
  /\ Dangling => (pc = "drop" /\ todo = <<"ctx">> /\ ecall = "none")
  /\ ~cbOnFreed
  /\ (pc = "cb") => (shim = "live")

C8_Witness ==
  /\ Dangling
  /\ tearing = "stream"
  /\ pc = "drop"

\* read_func has returned into the engine.
ReadReturned == cbRet.done /\ cb.kind = "read"

\* C9: read_func offers the stream the unfilled rest of the buffer each time,
\* reports success exactly when the buffer is full, and the length it reports
\* is the sum of what the stream reads of this invocation returned, at most N.
C9_ReadAccumulates ==
  /\ (cb.kind = "read" /\ cb.calls > 0) => (cb.offered = cb.N - cb.sumBeforeLast)
  /\ (cb.kind = "read") => (cb.start = cb.sum /\ cb.sum <= cb.N)
  /\ ReadReturned =>
       /\ (cbRet.ret = errSecSuccess) <=> (cbRet.len = cb.N)
       /\ cbRet.len = cb.sum
       /\ cbRet.len <= cb.N

C9_Witness ==
  /\ ReadReturned
  /\ cb.N = MaxBuf
  /\ cb.calls >= 2
  /\ cbRet.ret = errSecSuccess
  /\ cbRet.len = MaxBuf

\* C10: a stream read of zero bytes into a buffer that is not full stops
\* read_func, which reports closed-without-notify with the bytes transferred
\* before that read, and leaves conn.err as it was.
C10_ZeroReadIsClosedNoNotify ==
  (cb.kind = "read" /\ cb.zero)
    => /\ cb.stop
       /\ cb.sumBeforeLast < cb.N
       /\ cb.ret = errSSLClosedNoNotify
       /\ cb.start = cb.sumBeforeLast
       /\ connErr = cb.errBefore
       /\ cbRet.done => (cbRet.ret = errSSLClosedNoNotify
                         /\ cbRet.len = cb.sumBeforeLast)

C10_Witness ==
  /\ ReadReturned
  /\ cb.zero
  /\ cb.sum > 0
  /\ cb.errBefore = "WouldBlock"
  /\ cbRet.ret = errSSLClosedNoNotify

\* The last stream call of the callback answered with an error.
StreamErrored == cb.kind \in {"read", "write"} /\ cb.lastErr # "None"

\* C11: when a stream read or write inside read_func / write_func answers
\* with an error, the callback stops, conn.err holds that error whatever it
\* held before, and the callback reports the translated status with the
\* number of bytes transferred before the error.
C11_ErrorStopsStoresReports ==
  StreamErrored
    => /\ cb.stop
       /\ connErr = cb.lastErr
       /\ cb.ret = translate_err(cb.lastErr)
       /\ cb.start = cb.sumBeforeLast
       /\ cbRet.done => (cbRet.ret = translate_err(cb.lastErr)
                         /\ cbRet.len = cb.sumBeforeLast)

C11_Witness ==
  /\ StreamErrored
  /\ cb.kind = "write"
  /\ cb.errBefore = "WouldBlock"
  /\ cb.lastErr = "Other"
  /\ cb.sumBeforeLast > 0
  /\ cbRet.done
  /\ connErr = "Other"

\* The stream call that stopped the callback, and the status reported for it.
StoppedBy(res, st) == cb.stop /\ res => cb.ret = st

\* C12 (as claimed): every stream outcome has one status: end of input gives
\* closed-gracefully, a connection reset gives closed-abruptly, would-block
\* gives would-block and every other error gives the generic I/O failure.
C12_EndOfInputIsClosedGraceful ==
  /\ StoppedBy(cb.zero, errSSLClosedGraceful)
  /\ StoppedBy(cb.lastErr = "ConnectionReset", errSSLClosedAbort)
  /\ StoppedBy(cb.lastErr = "WouldBlock", errSSLWouldBlock)
  /\ StoppedBy(cb.lastErr \in {"NotFound", "Other"}, errSecIO)

\* C12 (amended): every stream error has one status by its kind: NotFound
\* gives closed-gracefully, ConnectionReset gives closed-abruptly, WouldBlock
\* gives would-block and every other kind gives the generic I/O failure; end
\* of input (a transfer of zero bytes) is no error, is not translated and is
\* reported closed-without-notify, never closed-gracefully.
C12_StatusByErrorKind ==
  /\ StoppedBy(cb.lastErr = "NotFound", errSSLClosedGraceful)
  /\ StoppedBy(cb.lastErr = "ConnectionReset", errSSLClosedAbort)
  /\ StoppedBy(cb.lastErr = "WouldBlock", errSSLWouldBlock)
  /\ StoppedBy(cb.lastErr = "Other", errSecIO)
  /\ StoppedBy(cb.zero, errSSLClosedNoNotify)
  /\ (cb.ret = errSSLClosedGraceful) => (cb.lastErr = "NotFound")
  /\ cb.stop => (cb.zero \/ cb.lastErr \in ErrorKinds)

C12_Witness ==
  /\ cbRet.done
  /\ cb.kind = "read"
  /\ cb.lastErr = "NotFound"
  /\ cbRet.ret = errSSLClosedGraceful
  /\ cb.sum > 0

\* What read_func makes of the last stream result of this invocation, taken
\* from the state the invocation was in before that result.
AsReadFunc ==
  LET r == IF cb.lastErr = "None" THEN Ok(cb.sum - cb.sumBeforeLast)
                                  ELSE Err(cb.lastErr)
      before == [cb EXCEPT !.start = cb.sumBeforeLast, !.ret = errSecSuccess,
                           !.stop = FALSE]
  IN read_func(before, cb.errBefore, r)

\* C13: write_func is read_func with writes for reads: after every stream
\* write its position, status and stored error are what read_func makes of
\* the same result, so it reports the same status and length for the same
\* results; a write of zero bytes is reported closed-without-notify.
C13_WriteSymmetricToRead ==
  /\ (cb.kind = "write" /\ cb.calls > 0)
       => /\ cb.start = AsReadFunc.c.start
          /\ cb.ret = AsReadFunc.c.ret
          /\ cb.stop = AsReadFunc.c.stop
          /\ connErr = AsReadFunc.e
  /\ (cb.kind = "write" /\ cbRet.done)
       => /\ cbRet.len = cb.sum
          /\ (cbRet.ret = errSecSuccess) <=> (cbRet.len = cb.N)
          /\ cb.zero => cbRet.ret = errSSLClosedNoNotify

C13_Witness ==
  /\ cbRet.done
  /\ cb.kind = "write"
  /\ cb.zero
  /\ cb.sum > 0
  /\ cb.calls >= 2
  /\ cbRet.ret = errSSLClosedNoNotify
  /\ cbRet.len = cb.sum

ClosedStatuses == {errSSLClosedGraceful, errSSLClosedAbort, errSSLClosedNoNotify}

\* SslStream::read has returned.
ReadDone == op = "read" /\ ioRes.kind # "none"

\* SslStream::write has returned.
WriteDone == op = "write" /\ ioRes.kind # "none"

\* C14: SslStream::read returns Ok(n) with the engine's count when SSLRead
\* reports success, Ok(0) when it reports one of the three closed statuses,
\* and an I/O error for every other status, would-block included.
C14_ReadResultByStatus ==
  ReadDone
    => /\ (ioRes.ret = errSecSuccess) => (ioRes.kind = "Ok" /\ ioRes.n = ioRes.nio)
       /\ (ioRes.ret \in ClosedStatuses) => (ioRes.kind = "Ok" /\ ioRes.n = 0)
       /\ (ioRes.ret \notin ClosedStatuses \cup {errSecSuccess})
            => (ioRes.kind = "Err" /\ ioRes.err.from # "none")
       /\ (ioRes.kind = "Ok") => (ioRes.err = NoErr)

C14_Witness ==
  /\ ReadDone
  /\ ioRes.ret = errSSLClosedAbort
  /\ ioRes.kind = "Ok"
  /\ ioRes.n = 0

\* C15: SslStream::write returns Ok with the engine's count only when
\* SSLWrite reports success; every other status, the closed statuses and
\* would-block included, gives an I/O error.
C15_WriteOkOnlyOnSuccess ==
  WriteDone
    => /\ (ioRes.kind = "Ok") <=> (ioRes.ret = errSecSuccess)
       /\ (ioRes.kind = "Ok") => (ioRes.n = ioRes.nio /\ ioRes.err = NoErr)
       /\ (ioRes.ret # errSecSuccess) => (ioRes.kind = "Err" /\ ioRes.err.from # "none")

C15_Witness ==
  /\ WriteDone
  /\ ioRes.ret = errSSLClosedNoNotify
  /\ ioRes.kind = "Err"

\* C16: the error of a failing read or write is the stream error stored in
\* conn.err when there is one, and conn.err is empty afterwards; with nothing
\* stored it is an error of kind Other that wraps the status of the call.
C16_PreservedErrorOrWrappedStatus ==
  ((ReadDone \/ WriteDone) /\ ioRes.kind = "Err")
    => /\ (ioRes.had # "None")
            => ioRes.err = [from |-> "stream", kind |-> ioRes.had, code |-> "none"]
       /\ (ioRes.had = "None")
            => ioRes.err = [from |-> "status", kind |-> "Other", code |-> ioRes.ret]
       /\ connErr = "None"

C16_Witness ==
  /\ ReadDone
  /\ ioRes.kind = "Err"
  /\ ioRes.had = "ConnectionReset"
  /\ ioRes.err.from = "stream"
  /\ ioRes.err.kind = "ConnectionReset"
  /\ connErr = "None"

\* C18: reads lose no data: whenever SSLRead has put n > 0 bytes into the
\* caller's buffer, whatever status it reports, SslStream::read returns Ok(n).
C18_ReadsLoseNoData ==
  (ReadDone /\ ioRes.nio > 0) => (ioRes.kind = "Ok" /\ ioRes.n = ioRes.nio)

\* C17: peer_trust called on a session on which no handshake step has run
\* (the session is idle) returns the error errSecBadReq, does not call
\* SSLCopyPeerTrust and does not panic.
C17_IdlePeerTrustIsBadReq ==
  (query.op = "peer_trust")
    => /\ (owner = "ctx") => (query.state = "Idle")
       /\ (query.state = "Idle")
            => /\ query.res = "Err"
               /\ query.code = errSecBadReq
               /\ ~query.copied
       /\ query.res # "panic"

C17_Witness ==
  /\ query.op = "peer_trust"
  /\ owner = "ctx"
  /\ op = "none"
  /\ query.state = "Idle"
  /\ query.res = "Err"
  /\ query.code = errSecBadReq

\* C19 (as claimed): against a peer whose identity does not match the peer
\* domain name no drive step ends in success, whatever the session options
\* and however the handshake paused and was resumed.
C19_MismatchNeverSucceeds ==
  ~peerMatches => (outcome.kind # "Ok" /\ owner # "stream")

\* C19 (amended): against a peer whose identity does not match the peer
\* domain name, with break-on-server-auth left off no drive step ends in
\* success or in the ServerAuthCompleted pause, however the handshake paused
\* and was resumed; with break-on-server-auth on the engine validates
\* nothing, and a success comes only after the ServerAuthCompleted pause was
\* handed to the caller.
C19_MismatchFailsUnlessBreakOnServerAuth ==
  ~peerMatches
    => /\ ~breakAsked => /\ outcome.kind \notin {"Ok", "ServerAuthCompleted"}
                         /\ owner # "stream"
                         /\ paused # "ServerAuthCompleted"
       /\ (owner = "stream") => (breakAsked /\ authDone)

C19_Witness ==
  /\ ~peerMatches
  /\ ~breakAsked
  /\ op = "resume"
  /\ pre.paused = "WouldBlock"
  /\ outcome = Failure(errSSLXCertChainInvalid)
  /\ pc = "idle"

\* C20: peer_id returns exactly the bytes of the last set_peer_id call that
\* was accepted, whatever bytes they are, and none on a session on which no
\* identifier was set.
C20_PeerIdRoundTrip ==
  /\ (query.op = "peer_id") => (query.res = "Ok" /\ query.val = idSet)
  /\ (query.op = "set_peer_id" /\ query.res = "Ok")
       => idSet = [some |-> TRUE, data |-> query.arg]

C20_Witness ==
  /\ query.op = "peer_id"
  /\ query.val.some
  /\ Len(query.val.data) = MaxIdLen
  /\ query.val.data[1] = MaxByte
  /\ query.val.data[MaxIdLen] = 0
  /\ query.val = idSet

\* C21: peer_domain_name returns exactly the string of the last
\* set_peer_domain_name call that was accepted, the empty string included,
\* and the empty string on a session on which no name was set.
C21_PeerDomainNameRoundTrip ==
  /\ (query.op = "peer_domain_name")
       => (query.res = "Ok" /\ query.val.data = nameSet)
  /\ (query.op = "set_peer_domain_name" /\ query.res = "Ok")
       => nameSet = query.arg

C21_Witness ==
  /\ query.op = "peer_domain_name"
  /\ Len(query.val.data) = MaxNameLen
  /\ query.val.data[1] = MaxByte
  /\ query.val.data[MaxNameLen] = 0
  /\ query.val.data = nameSet

\* A step that is a call of SslStream::flush.
FlushStep ==
  /\ pc = "idle"
  /\ owner = "stream"
  /\ op' = "flush"
  /\ query' = NoQuery
  /\ streamReady' = streamReady

C23_OneAdvancePerDriveStep ==
  /\ (op \in {"handshake", "resume"})
       => advances = (IF pre.install = "none" THEN 1 ELSE 0)
  /\ (ecall = "SSLHandshake") => (op \in {"handshake", "resume"} /\ advances = 1)
  /\ (op = "resume") => (resumes >= 1)
  /\ advances <= 1

C23_Witness ==
  /\ op = "resume"
  /\ resumes = MaxResumes
  /\ pre.paused = "WouldBlock"
  /\ status = errSSLWouldBlock
  /\ outcome.kind = "WouldBlock"
  /\ advances = 1
  /\ pc = "idle"

\* C24: once a drive step has returned Ok, SSLHandshake is never called on
\* the session again: what is left is the SslStream, its teardown or nothing,
\* never a value that can be resumed.
C24_NoAdvanceAfterConnected ==
  connected
    => /\ ecall # "SSLHandshake"
       /\ owner \in {"stream", "tearing", "none"}
       /\ paused = "none"
       /\ op \in {"handshake", "resume"} => (outcome.kind = "Ok" /\ pc = "idle")

C24_Witness ==
  /\ connected
  /\ resumes >= 1
  /\ op = "read"
  /\ ioRes.kind = "Ok"
  /\ ioRes.n > 0
  /\ owner = "stream"

\* C25 (as claimed): conn.err never holds a WouldBlock error.
C25_SlotNeverHoldsWouldBlock == connErr # "WouldBlock"

\* C25 (amended): conn.err holds the last error of the stream whatever its
\* kind: a WouldBlock error is reported as errSSLWouldBlock and stored as
\* well, so that a read or write that ends with errSSLWouldBlock returns the
\* stream's own WouldBlock error.
C25_WouldBlockIsStoredToo ==
  /\ (StreamErrored /\ cb.lastErr = "WouldBlock")
       => (connErr = "WouldBlock" /\ cb.ret = errSSLWouldBlock)
  /\ ((ReadDone \/ WriteDone) /\ ioRes.ret = errSSLWouldBlock)
       => /\ ioRes.kind = "Err"
          /\ ioRes.had = "WouldBlock"
          /\ ioRes.err = [from |-> "stream", kind |-> "WouldBlock", code |-> "none"]

C25_Witness ==
  /\ ReadDone
  /\ ioRes.ret = errSSLWouldBlock
  /\ ioRes.fresh
  /\ ioRes.err.from = "stream"
  /\ ioRes.err.kind = "WouldBlock"
  /\ connErr = "None"

\* C26: a read or write that returns the stored stream error returns an
\* error that read_func / write_func recorded during that same call.
C26_PreservedErrorIsOfThisCall ==
  ((ReadDone \/ WriteDone) /\ ioRes.kind = "Err" /\ ioRes.err.from = "stream")
    => ioRes.fresh

\* C27: when SslStream::write returns an error, SSLWrite has accepted none of
\* the bytes of the buffer in that call.
C27_FailedWriteAcceptedNothing ==
  (WriteDone /\ ioRes.kind = "Err") => (ioRes.nio = 0)

\* C28: an invocation of read_func / write_func with a buffer of N bytes
\* makes at most N stream calls, none after the first error or transfer of
\* zero bytes, and for N = 0 none at all, reporting success with length 0.
C28_AtMostNStreamCalls ==
  (cb.kind \in {"read", "write"})
    => /\ cb.calls <= cb.N
       /\ cb.stop => (cb.zero \/ cb.lastErr # "None")
       /\ (cb.calls > 0) => (cb.sum >= cb.calls - 1)
       /\ (cb.N = 0) => /\ cb.calls = 0
                        /\ cb.ret = errSecSuccess
                        /\ cb.start = 0
                        /\ cbRet.done => (cbRet.ret = errSecSuccess /\ cbRet.len = 0)

C28_Witness ==
  /\ cbRet.done
  /\ cb.kind = "write"
  /\ cb.N = MaxBuf
  /\ cb.calls = MaxBuf
  /\ cb.lastErr = "Other"
  /\ cbRet.len = MaxBuf - 1

====
